---------------------------- MODULE Spec2Model ----------------------------
(***************************************************************************)
(* Model of the business search service (services/maps): the classifier    *)
(* determineWebsiteType / extractSocialProfiles / mapPlaceToBusiness and    *)
(* the aggregator searchBusinesses, which awaits one external call at a     *)
(* time (geocode, nearbySearch per radius tier, getDetails per place).      *)
(*                                                                         *)
(* An atomic step of the model is what the JavaScript event loop runs       *)
(* without interruption: the invocation up to its first await, or one       *)
(* external callback together with the continuation of the async function   *)
(* up to its next await (or its return / throw).                            *)
(***************************************************************************)
EXTENDS Integers, Sequences, FiniteSets, TLC

(***************************************************************************)
(* Bounds of the model.                                                     *)
(***************************************************************************)
\* place ids the external service may hand out: 1..NumIds
NumIds == 4
\* longest result list of one nearbySearch response
MaxTierLen == 2
\* largest explicit limit a caller passes
MaxLimit == 1
\* largest skip a caller passes
MaxSkip == 2

(***************************************************************************)
(* Optional values.  None models undefined / null, Some(v) a present value. *)
(***************************************************************************)
None == <<>>
Some(v) == <<v>>
IsSome(o) == o /= <<>>
Get(o) == o[1]

\* [a, b) of a JavaScript array: Array.prototype.slice(a, b) for 0 <= a <= b
Slice(s, a, b) ==
    LET hi == IF b < Len(s) THEN b ELSE Len(s)
    IN  IF a >= hi THEN <<>> ELSE [i \in 1..(hi - a) |-> s[a + i]]

Range(s) == {s[i] : i \in 1..Len(s)}

(***************************************************************************)
(* Strings.  A string is a sequence of atoms; an atom is a piece of text    *)
(* that the domain tests below never split.  The empty sequence is the      *)
(* empty string; an absent (undefined) string is modelled by it as well     *)
(* wherever the code only tests truthiness.                                 *)
(***************************************************************************)
FACEBOOK_DOMAINS == <<"facebook.com", "fb.com">>
YELP_DOMAINS == <<"yelp.com">>
PLATFORM_DOMAINS ==
    << "yelp.com", "facebook.com", "fb.com", "instagram.com", "linkedin.com",
       "shopify.com", "wix.com", "squarespace.com", "weebly.com",
       "wordpress.com", "godaddy.com",
       "doordash.com", "ubereats.com", "grubhub.com", "opentable.com",
       "booksy.com", "vagaro.com",
       "yellowpages.com", "manta.com", "bbb.org", "tripadvisor.com" >>

\* atoms that open an absolute URL
SchemeAtoms == {"https://", "http://"}
\* atoms that end the host part of a URL
PathAtoms == {"/", "/somebiz", "?q"}

\* String.prototype.toLowerCase on one atom
LowerAtom(a) ==
    CASE a = "FACEBOOK.COM" -> "facebook.com"
      [] a = "Yelp.com" -> "yelp.com"
      [] a = "WWW." -> "www."
      [] OTHER -> a

toLowerCase(s) == [i \in 1..Len(s) |-> LowerAtom(s[i])]

\* String.prototype.includes(d) for a domain d of the lists above
includes(s, d) == \E i \in 1..Len(s) : s[i] = d

\* DOMAINS.some((d) => domain.includes(d))
someIncluded(list, domain) == \E i \in 1..Len(list) : includes(domain, list[i])

\* new URL(url): does the constructor accept the string?
URLParses(url) ==
    /\ Len(url) >= 2
    /\ url[1] \in SchemeAtoms
    /\ url[2] \notin PathAtoms
    /\ url[2] \notin SchemeAtoms

\* new URL(url).hostname of a string the constructor accepts: the atoms
\* after the scheme up to the first path atom, lower-cased by the parser
RECURSIVE HostPrefix(_)
HostPrefix(s) ==
    IF s = <<>> \/ Head(s) \in PathAtoms THEN <<>>
    ELSE <<Head(s)>> \o HostPrefix(Tail(s))

hostname(url) == toLowerCase(HostPrefix(Tail(url)))


(***************************************************************************)
(* Classifier.                                                              *)
(***************************************************************************)
WebsiteTypes == {"none", "facebook", "yelp", "other", "legitimate"}

determineWebsiteType(url) ==
    IF url = <<>> THEN "none"
    ELSE IF ~URLParses(url) THEN "none"
    ELSE LET domain == hostname(url)
         IN  IF someIncluded(FACEBOOK_DOMAINS, domain)
                 THEN "facebook"
             ELSE IF someIncluded(YELP_DOMAINS, domain)
                 THEN "yelp"
             ELSE IF someIncluded(PLATFORM_DOMAINS, domain)
                 THEN "other"
             ELSE "legitimate"

\* the accumulator of the reduce: absent keys are None
NoProfiles == [facebook |-> None, yelp |-> None, instagram |-> None, other |-> None]

\* mutant of AddProfile: other holds the last url, as the platforms do
AddProfileOtherLast(profiles, url) ==
    IF ~URLParses(url) THEN profiles
    ELSE LET domain == hostname(url)
         IN  IF someIncluded(FACEBOOK_DOMAINS, domain)
                 THEN [profiles EXCEPT !.facebook = Some(url)]
             ELSE IF someIncluded(YELP_DOMAINS, domain)
                 THEN [profiles EXCEPT !.yelp = Some(url)]
             ELSE IF includes(domain, "instagram.com")
                 THEN [profiles EXCEPT !.instagram = Some(url)]
             ELSE [profiles EXCEPT !.other = Some(<<url>>)]

\* one step of the reduce callback
AddProfile(profiles, url) ==
    IF ~URLParses(url) THEN profiles
    ELSE LET domain == hostname(url)
         IN  IF someIncluded(FACEBOOK_DOMAINS, domain)
                 THEN [profiles EXCEPT !.facebook = Some(url)]
             ELSE IF someIncluded(YELP_DOMAINS, domain)
                 THEN [profiles EXCEPT !.yelp = Some(url)]
             ELSE IF includes(domain, "instagram.com")
                 THEN [profiles EXCEPT !.instagram = Some(url)]
             ELSE [profiles EXCEPT !.other =
                      Some((IF IsSome(@) THEN Get(@) ELSE <<>>) \o <<url>>)]

RECURSIVE ReduceProfiles(_, _)
ReduceProfiles(profiles, urls) ==
    IF urls = <<>> THEN profiles
    ELSE ReduceProfiles(AddProfile(profiles, Head(urls)), Tail(urls))

extractSocialProfiles(urls) == ReduceProfiles(NoProfiles, urls)

genericCategories ==
    { "point_of_interest", "establishment", "business", "place", "premise",
      "store", "local_business", "general_contractor", "political", "geocode",
      "route", "street_address", "intersection", "street_number", "subpremise",
      "postal_code", "natural_feature", "floor", "room", "postal_town",
      "neighborhood", "locality",
      "administrative_area_level_1", "administrative_area_level_2",
      "administrative_area_level_3", "administrative_area_level_4",
      "administrative_area_level_5", "country", "sublocality",
      "sublocality_level_1", "sublocality_level_2", "sublocality_level_3",
      "sublocality_level_4", "sublocality_level_5" }

\* mutant of filteredCategories: "store" is missing from the denylist
filteredCategoriesKeepStore(place) ==
    IF IsSome(place.types)
        THEN SelectSeq(Get(place.types),
                       LAMBDA type : type \notin genericCategories \ {"store"})
        ELSE <<>>

\* place.types?.filter(...) || []
filteredCategories(place) ==
    IF IsSome(place.types)
        THEN SelectSeq(Get(place.types), LAMBDA type : type \notin genericCategories)
        ELSE <<>>

\* photos.length below which a place "needs photos"
MinPhotos == 3

\* A raw place (google.maps.places.PlaceResult) is a record
\*   place_id               0 when absent, else the id
\*   name, formatted_address, formatted_phone_number   None or Some(text)
\*   geometry               None or Some([lat, lng])
\*   website, url           a string, <<>> when absent
\*   types                  None or Some(sequence of tags)
\*   business_status        "" when absent
\*   photos                 None or Some(number of photos)
\* Evaluating place.geometry!.location!.lat() throws a TypeError when the
\* geometry is absent; the other non-null assertions are erased at run time.
mapPlaceToBusinessThrows(place) == place.geometry = None

\* mutant of mapPlaceToBusiness: a place with three photos needs photos too
mapPlaceToBusinessPhotosAtMost(place, searchQuery) ==
    LET website == place.website
        websiteType == determineWebsiteType(website)
        socialProfiles ==
            extractSocialProfiles(IF place.url /= <<>> THEN <<place.url>> ELSE <<>>)
        businessStatus ==
            IF place.business_status /= "" THEN place.business_status
            ELSE "OPERATIONAL"
        improvements ==
            [ needsPhone |-> place.formatted_phone_number = None,
              needsPhotos |-> place.photos = None \/ Get(place.photos) <= MinPhotos,
              needsSocialMedia |-> FALSE,
              needsWebsite |-> websiteType /= "legitimate" ]
    IN  [ id |-> place.place_id,
          name |-> place.name,
          address |-> place.formatted_address,
          location |-> Get(place.geometry),
          category |-> filteredCategories(place),
          websiteType |-> websiteType,
          websiteUrl |-> website,
          socialProfiles |-> socialProfiles,
          phoneNumber |-> place.formatted_phone_number,
          searchQuery |-> searchQuery,
          businessStatus |-> businessStatus,
          improvements |-> improvements ]

\* mutant of mapPlaceToBusiness: only a place without website needs one
mapPlaceToBusinessNeedsWebsiteIfNone(place, searchQuery) ==
    LET website == place.website
        websiteType == determineWebsiteType(website)
        socialProfiles ==
            extractSocialProfiles(IF place.url /= <<>> THEN <<place.url>> ELSE <<>>)
        businessStatus ==
            IF place.business_status /= "" THEN place.business_status
            ELSE "OPERATIONAL"
        improvements ==
            [ needsPhone |-> place.formatted_phone_number = None,
              needsPhotos |-> place.photos = None \/ Get(place.photos) < MinPhotos,
              needsSocialMedia |-> FALSE,
              needsWebsite |-> websiteType = "none" ]
    IN  [ id |-> place.place_id,
          name |-> place.name,
          address |-> place.formatted_address,
          location |-> Get(place.geometry),
          category |-> filteredCategories(place),
          websiteType |-> websiteType,
          websiteUrl |-> website,
          socialProfiles |-> socialProfiles,
          phoneNumber |-> place.formatted_phone_number,
          searchQuery |-> searchQuery,
          businessStatus |-> businessStatus,
          improvements |-> improvements ]

\* mutant of mapPlaceToBusiness: the search query is added to the categories
mapPlaceToBusinessQueryCategory(place, searchQuery) ==
    LET website == place.website
        websiteType == determineWebsiteType(website)
        socialProfiles ==
            extractSocialProfiles(IF place.url /= <<>> THEN <<place.url>> ELSE <<>>)
        businessStatus ==
            IF place.business_status /= "" THEN place.business_status
            ELSE "OPERATIONAL"
        improvements ==
            [ needsPhone |-> place.formatted_phone_number = None,
              needsPhotos |-> place.photos = None \/ Get(place.photos) < MinPhotos,
              needsSocialMedia |-> FALSE,
              needsWebsite |-> websiteType /= "legitimate" ]
    IN  [ id |-> place.place_id,
          name |-> place.name,
          address |-> place.formatted_address,
          location |-> Get(place.geometry),
          category |-> filteredCategories(place) \o
                          (IF searchQuery /= "" THEN <<searchQuery>> ELSE <<>>),
          websiteType |-> websiteType,
          websiteUrl |-> website,
          socialProfiles |-> socialProfiles,
          phoneNumber |-> place.formatted_phone_number,
          searchQuery |-> searchQuery,
          businessStatus |-> businessStatus,
          improvements |-> improvements ]

mapPlaceToBusiness(place, searchQuery) ==
    LET website == place.website
        websiteType == determineWebsiteType(website)
        socialProfiles ==
            extractSocialProfiles(IF place.url /= <<>> THEN <<place.url>> ELSE <<>>)
        businessStatus ==
            IF place.business_status /= "" THEN place.business_status
            ELSE "OPERATIONAL"
        improvements ==
            [ needsPhone |-> place.formatted_phone_number = None,
              needsPhotos |-> place.photos = None \/ Get(place.photos) < MinPhotos,
              needsSocialMedia |-> FALSE,
              needsWebsite |-> websiteType /= "legitimate" ]
    IN  [ id |-> place.place_id,
          name |-> place.name,
          address |-> place.formatted_address,
          location |-> Get(place.geometry),
          category |-> filteredCategories(place),
          websiteType |-> websiteType,
          websiteUrl |-> website,
          socialProfiles |-> socialProfiles,
          phoneNumber |-> place.formatted_phone_number,
          searchQuery |-> searchQuery,
          businessStatus |-> businessStatus,
          improvements |-> improvements ]

(***************************************************************************)
(* Inputs of searchBusinesses and responses of the external service.        *)
(***************************************************************************)
\* limit = 20, skip = 0 when the caller leaves them undefined
DefaultLimit == 20
DefaultSkip == 0
\* targetResults = limit * 3
Oversample == 3

\* requested radii (metres): one tier, two tiers, four tiers
RadiusInputs == {2000, 3000, 20000}
LimitInputs == {None} \cup {Some(n) : n \in 0..MaxLimit}
SkipInputs == {None} \cup {Some(n) : n \in 1..MaxSkip}
\* websiteType ("" when not given) with excludeWebsiteTypes (None when not given)
FilterInputs ==
    { [websiteType |-> "", excludeWebsiteTypes |-> Some(<<"facebook">>)],
      [websiteType |-> "", excludeWebsiteTypes |-> Some(<<>>)],
      [websiteType |-> "", excludeWebsiteTypes |-> Some(<<"none", "legitimate">>)],
      [websiteType |-> "facebook", excludeWebsiteTypes |-> Some(<<"facebook">>)],
      [websiteType |-> "legitimate", excludeWebsiteTypes |-> None] }

NoFilter == [websiteType |-> "", excludeWebsiteTypes |-> None]

Parameters(r, l, k, f) ==
    [ location |-> "Austin", radius |-> r, limit |-> l, skip |-> k,
      websiteType |-> f.websiteType,
      excludeWebsiteTypes |-> f.excludeWebsiteTypes ]

\* radii at and around the borders of the three classes of radii
BorderRadii == {1000, 2002, 4000, 4002, 10000, 10002, 50000}

\* the calls made: every radius with every limit; for two tiers also every
\* skip; for one tier also every skip with every filter; the border radii
\* with limit 0; for two tiers the page after the oversampled target
SearchParameters ==
    { Parameters(r, l, None, NoFilter) : r \in RadiusInputs, l \in LimitInputs }
    \cup { Parameters(r, Some(0), None, NoFilter) : r \in BorderRadii }
    \cup { Parameters(3000, Some(l), Some(Oversample * l), NoFilter) :
              l \in 1..MaxLimit }
    \cup { Parameters(3000, l, k, NoFilter) : l \in LimitInputs, k \in SkipInputs }
    \cup { Parameters(2000, l, k, f) :
             l \in LimitInputs, k \in SkipInputs, f \in FilterInputs }

\* geocoder.geocode callback arguments: results is None (null) or Some(list)
GeocodeResponses ==
    { [status |-> "OK", results |-> Some(<<"30.27,-97.74">>)],
      [status |-> "OK", results |-> Some(<<>>)],
      [status |-> "OK", results |-> None],
      [status |-> "ZERO_RESULTS", results |-> Some(<<>>)],
      [status |-> "REQUEST_DENIED", results |-> None] }

\* place_id lists of a nearbySearch result; 0 is a stub without a place_id
StubLists == UNION {[1..n -> 0..NumIds] : n \in 0..MaxTierLen}

\* service.nearbySearch callback arguments
NearbyResponses ==
    { [status |-> "OK", results |-> Some(ids)] : ids \in StubLists }
    \cup { [status |-> "OK", results |-> None],
           [status |-> "ZERO_RESULTS", results |-> None],
           [status |-> "ZERO_RESULTS", results |-> Some(<<>>)],
           [status |-> "OVER_QUERY_LIMIT", results |-> None],
           [status |-> "OVER_QUERY_LIMIT", results |-> Some(<<1>>)] }

FacebookUrl == <<"https://", "www.", "facebook.com", "/somebiz">>
OwnSiteUrl == <<"https://", "joes-cafe.com">>

\* a raw place with the given id, status, website and geometry; the other
\* fields are those of a cafe without phone number and photos
RawPlace(id, status, website, geometry) ==
    [ place_id |-> id,
      name |-> Some("Joe's"),
      formatted_address |-> Some("1 Main St"),
      geometry |-> geometry,
      website |-> website,
      url |-> <<"https://", "maps.google.com", "?q">>,
      formatted_phone_number |-> None,
      types |-> Some(<<"cafe", "establishment">>),
      business_status |-> status,
      photos |-> None ]

SomeLocation == Some([lat |-> 30, lng |-> -97])

\* records a getDetails call for placeId may deliver.  The request does not
\* list "place_id" among its fields, so the record comes without one (0);
\* a service that adds it anyway is covered by the first record.
CommonRecords(placeId) ==
    { RawPlace(placeId, "OPERATIONAL", FacebookUrl, SomeLocation),
      RawPlace(0, "PERMANENTLY_CLOSED", FacebookUrl, SomeLocation),
      RawPlace(0, "", OwnSiteUrl, SomeLocation) }

\* records only the first place found may deliver: one without a website
\* and one without a geometry
RareRecords ==
    { RawPlace(0, "TEMPORARILY_CLOSED", <<>>, SomeLocation),
      RawPlace(0, "OPERATIONAL", OwnSiteUrl, None) }

DetailRecords(placeId) ==
    CommonRecords(placeId) \cup (IF placeId = 1 THEN RareRecords ELSE {})

\* service.getDetails callback arguments
DetailsResponses(placeId) ==
    { [status |-> "OK", result |-> Some(r)] : r \in DetailRecords(placeId) }
    \cup { [status |-> "NOT_FOUND", result |-> None] }
    \cup (IF placeId = 1 THEN {[status |-> "OK", result |-> None]} ELSE {})

(***************************************************************************)
(* searchBusinesses: the locals of one call and the code between awaits.    *)
(***************************************************************************)
\* the calls of the model
Calls == {"A"}

\* locals of a call that has not been made
Idle ==
    [ pc |-> "idle",
      params |-> [ location |-> "", radius |-> 0, limit |-> None, skip |-> None,
                   websiteType |-> "", excludeWebsiteTypes |-> None ],
      limit |-> 0, skip |-> 0, targetResults |-> 0,
      searchRadii |-> <<>>, tier |-> 0,
      allPlaces |-> <<>>, totalCount |-> 0,
      next |-> 0, detailedPlaces |-> <<>>,
      businesses |-> <<>>, result |-> None, error |-> "",
      issued |-> <<>> ]

\* the call hands a request to the external service and awaits its callback
Issue(L, kind, arg) ==
    [L EXCEPT !.pc = kind,
              !.issued = Append(@, [kind |-> kind, arg |-> arg, seq |-> Len(@) + 1])]

\* the async function throws: its promise rejects
Reject(L, message) == [L EXCEPT !.pc = "rejected", !.error = message]

Min(a, b) == IF a < b THEN a ELSE b

\* mutant of searchRadii: a radius of exactly 2000 or 10000 falls in the
\* next class
searchRadiiStrict(radius) ==
    IF radius < 2000 THEN <<radius>>
    ELSE IF radius < 10000 THEN <<Min(2000, radius \div 2), radius>>
    ELSE <<2000, 5000, 10000, radius>>

\* radii are even numbers of metres here, so radius / 2 is exact
searchRadii(radius) ==
    IF radius <= 2000 THEN <<radius>>
    ELSE IF radius <= 10000 THEN <<Min(2000, radius \div 2), radius>>
    ELSE <<2000, 5000, 10000, radius>>

\* allPlaces is a Map in insertion order: a sequence of [key, value] entries
MapHas(m, key) == \E i \in 1..Len(m) : m[i].key = key

\* Map.prototype.set: a new key is appended, an existing key keeps its place
MapSet(m, key, value) ==
    IF MapHas(m, key)
        THEN [i \in 1..Len(m) |->
                 IF m[i].key = key THEN [key |-> key, value |-> value] ELSE m[i]]
        ELSE Append(m, [key |-> key, value |-> value])

\* mutant of AddPlace: the test for a key already present is dropped
AddPlaceOverwrite(m, place) ==
    IF place.place_id /= 0 THEN MapSet(m, place.place_id, place) ELSE m

\* body of the loop over the results of one tier
AddPlace(m, place) ==
    IF place.place_id /= 0 /\ ~MapHas(m, place.place_id)
        THEN MapSet(m, place.place_id, place)
        ELSE m

RECURSIVE AddPlaces(_, _)
AddPlaces(m, results) ==
    IF results = <<>> THEN m
    ELSE AddPlaces(AddPlace(m, Head(results)), Tail(results))

\* mutant of PassesFilter: the website type is tested before the status
PassesFilterTypeFirst(params, business) ==
    IF params.websiteType /= "" THEN business.websiteType = params.websiteType
    ELSE IF business.businessStatus = "PERMANENTLY_CLOSED" THEN FALSE
    ELSE IF IsSome(params.excludeWebsiteTypes) /\ Len(Get(params.excludeWebsiteTypes)) > 0
        THEN business.websiteType \notin Range(Get(params.excludeWebsiteTypes))
    ELSE TRUE

\* mutant of PassesFilter: the exclusion list is applied before websiteType
PassesFilterExcludeFirst(params, business) ==
    IF business.businessStatus = "PERMANENTLY_CLOSED" THEN FALSE
    ELSE IF IsSome(params.excludeWebsiteTypes) /\ Len(Get(params.excludeWebsiteTypes)) > 0
        THEN business.websiteType \notin Range(Get(params.excludeWebsiteTypes))
    ELSE IF params.websiteType /= "" THEN business.websiteType = params.websiteType
    ELSE TRUE

\* mutant of PassesFilter: without filters, legitimate websites are dropped
PassesFilterDefaultExclude(params, business) ==
    IF business.businessStatus = "PERMANENTLY_CLOSED" THEN FALSE
    ELSE IF params.websiteType /= "" THEN business.websiteType = params.websiteType
    ELSE IF IsSome(params.excludeWebsiteTypes) /\ Len(Get(params.excludeWebsiteTypes)) > 0
        THEN business.websiteType \notin Range(Get(params.excludeWebsiteTypes))
    ELSE business.websiteType /= "legitimate"

\* the predicate of businesses.filter
PassesFilter(params, business) ==
    IF business.businessStatus = "PERMANENTLY_CLOSED" THEN FALSE
    ELSE IF params.websiteType /= "" THEN business.websiteType = params.websiteType
    ELSE IF IsSome(params.excludeWebsiteTypes) /\ Len(Get(params.excludeWebsiteTypes)) > 0
        THEN business.websiteType \notin Range(Get(params.excludeWebsiteTypes))
    ELSE TRUE

\* mutant of MakeResult: the page ends at limit instead of skip + limit
MakeResultSliceToLimit(L, businesses) ==
    [ businesses |-> Slice(businesses, L.skip, L.limit),
      totalCount |-> Len(L.allPlaces),
      hasMore |-> Len(businesses) > L.skip + L.limit ]

\* mutant of MakeResult: totalCount counts the filtered businesses
MakeResultFilteredCount(L, businesses) ==
    [ businesses |-> Slice(businesses, L.skip, L.skip + L.limit),
      totalCount |-> Len(businesses),
      hasMore |-> Len(businesses) > L.skip + L.limit ]

\* the SearchResult returned
MakeResult(L, businesses) ==
    [ businesses |-> Slice(businesses, L.skip, L.skip + L.limit),
      totalCount |-> Len(L.allPlaces),
      hasMore |-> Len(businesses) > L.skip + L.limit ]

\* map, filter, paginate and return; a throw of mapPlaceToBusiness rejects
Finish(L) ==
    IF \E i \in 1..Len(L.detailedPlaces) : mapPlaceToBusinessThrows(L.detailedPlaces[i])
        THEN Reject(L, "TypeError")
    ELSE LET mapped == [i \in 1..Len(L.detailedPlaces) |->
                           mapPlaceToBusiness(L.detailedPlaces[i], L.params.location)]
             businesses == SelectSeq(mapped, LAMBDA b : PassesFilter(L.params, b))
         IN  [L EXCEPT !.pc = "resolved",
                       !.businesses = businesses,
                       !.result = Some(MakeResult(L, businesses))]

\* mutant of DetailLoop: every place found is fetched
DetailLoopAll(L) ==
    IF L.next > Len(L.allPlaces)
        THEN Finish(L)
        ELSE Issue(L, "getDetails", L.allPlaces[L.next].key)

\* head of the loop over allPlaces.entries(); L.next is the entry to visit
DetailLoop(L) ==
    IF L.next > Len(L.allPlaces) \/ Len(L.detailedPlaces) >= L.targetResults
        THEN Finish(L)
        ELSE Issue(L, "getDetails", L.allPlaces[L.next].key)

\* mutant of TierLoop: the radii are searched from the last to the first
TierLoopBackwards(L) ==
    IF L.tier > Len(L.searchRadii) \/ Len(L.allPlaces) >= L.targetResults
        THEN DetailLoop([L EXCEPT !.next = 1])
        ELSE Issue(L, "nearbySearch", L.searchRadii[Len(L.searchRadii) + 1 - L.tier])

\* mutant of TierLoop: every radius is searched, however many places are found
TierLoopNoEarlyStop(L) ==
    IF L.tier > Len(L.searchRadii)
        THEN DetailLoop([L EXCEPT !.next = 1])
        ELSE Issue(L, "nearbySearch", L.searchRadii[L.tier])

\* head of the loop over searchRadii; L.tier is the radius to search
TierLoop(L) ==
    IF L.tier > Len(L.searchRadii) \/ Len(L.allPlaces) >= L.targetResults
        THEN DetailLoop([L EXCEPT !.next = 1])
        ELSE Issue(L, "nearbySearch", L.searchRadii[L.tier])

\* the call up to its first await
Invoke(params) ==
    LET limit == IF IsSome(params.limit) THEN Get(params.limit) ELSE DefaultLimit
        skip == IF IsSome(params.skip) THEN Get(params.skip) ELSE DefaultSkip
    IN  Issue([Idle EXCEPT !.params = params, !.limit = limit, !.skip = skip,
                           !.targetResults = limit * Oversample],
              "geocode", params.location)

\* mutant of OnGeocode: a failed geocode is tried again
OnGeocodeRetry(L, resp) ==
    IF resp.status = "OK" /\ IsSome(resp.results)
        THEN IF Get(resp.results) = <<>>
                 THEN Reject(L, "TypeError")
                 ELSE TierLoop([L EXCEPT !.searchRadii = searchRadii(L.params.radius),
                                         !.tier = 1])
        ELSE Issue(L, "geocode", L.params.location)

\* the geocode callback and the code up to the next await
OnGeocode(L, resp) ==
    IF resp.status = "OK" /\ IsSome(resp.results)
        THEN IF Get(resp.results) = <<>>
                 THEN Reject(L, "TypeError")
                 ELSE TierLoop([L EXCEPT !.searchRadii = searchRadii(L.params.radius),
                                         !.tier = 1])
        ELSE Reject(L, "Geocoding failed")

\* the stubs of a result list.  Each stub is an object of its own: first
\* tells whether it is the first stub with its place_id the service delivered
\* to this call (known: the ids it delivered before this response)
Stubs(ids, known) ==
    [i \in 1..Len(ids) |->
        [ place_id |-> ids[i],
          first |-> ids[i] \notin known /\ \A j \in 1..(i - 1) : ids[j] /= ids[i] ]]

\* what the nearbySearch promise settles to: Some(results) or None (rejected)
NearbySettles(resp) ==
    IF resp.status = "OK" /\ IsSome(resp.results) THEN resp.results
    ELSE IF resp.status = "ZERO_RESULTS" THEN Some(<<>>)
    ELSE None

\* mutant of OnNearby: on a failed tier the promise is never settled
OnNearbyHangs(L, resp) ==
    LET settled == NearbySettles(resp)
    IN  IF IsSome(settled)
            THEN TierLoop([L EXCEPT !.allPlaces = AddPlaces(@, Get(settled)),
                                    !.totalCount = @ + Len(Get(settled)),
                                    !.tier = @ + 1])
            ELSE L

\* mutant of OnNearby: the rejection of a tier is not caught
OnNearbyUncaught(L, resp) ==
    LET settled == NearbySettles(resp)
    IN  IF IsSome(settled)
            THEN TierLoop([L EXCEPT !.allPlaces = AddPlaces(@, Get(settled)),
                                    !.totalCount = @ + Len(Get(settled)),
                                    !.tier = @ + 1])
            ELSE Reject(L, "Places search failed")

\* the nearbySearch callback, the rest of the loop body, and the code up to
\* the next await
OnNearby(L, resp) ==
    LET settled == NearbySettles(resp)
        after ==
            IF IsSome(settled)
                THEN [L EXCEPT !.allPlaces = AddPlaces(@, Get(settled)),
                               !.totalCount = @ + Len(Get(settled))]
                ELSE L
    IN  TierLoop([after EXCEPT !.tier = @ + 1])

\* what the getDetails promise settles to: Some(place) or None (rejected)
DetailsSettles(resp) ==
    IF resp.status = "OK" /\ IsSome(resp.result) THEN resp.result ELSE None

\* mutant of OnDetails: the rejection of one detail fetch is not caught
OnDetailsUncaught(L, resp) ==
    LET settled == DetailsSettles(resp)
    IN  IF IsSome(settled)
            THEN DetailLoop([L EXCEPT !.detailedPlaces = Append(@, Get(settled)),
                                      !.next = @ + 1])
            ELSE Reject(L, "Place details failed")

\* the getDetails callback, the rest of the loop body, and the code up to
\* the next await
OnDetails(L, resp) ==
    LET settled == DetailsSettles(resp)
        after ==
            IF IsSome(settled)
                THEN [L EXCEPT !.detailedPlaces = Append(@, Get(settled))]
                ELSE L
    IN  DetailLoop([after EXCEPT !.next = @ + 1])

\* the ResultsList component before it is mounted: its state variables
\* (results and error are None for null), the search parameters of the page,
\* and the searchBusinesses calls it awaits
NoView ==
    [ searchParams |-> 0, results |-> None, isLoading |-> FALSE, error |-> None,
      page |-> 1, allBusinesses |-> <<>>, inFlight |-> {}, started |-> 0 ]

\* the reduce over an empty list
NoReduction == [urls |-> <<>>, next |-> 1, profiles |-> NoProfiles]

\* locals of the analyzeBusiness call that has not been made; response is
\* what the getDetails callback was called with (None before)
IdleAnalysis ==
    [ pc |-> "idle", placeId |-> 0, issued |-> <<>>, response |-> None,
      result |-> None, error |-> "" ]

(***************************************************************************)
(* State.                                                                   *)
(*   calls    the locals and position of each searchBusinesses call         *)
(*   pending  the external requests whose callback has not run yet          *)
(*   obs      what an observer of the external service has seen per call:   *)
(*            geocode      the status the geocoder reported ("" before)     *)
(*            seenIds      the place ids delivered with status OK           *)
(*            resultsSeen  the number of results delivered with status OK   *)
(*            tierStatuses the other statuses nearbySearch reported         *)
(*            fetched      the records delivered by getDetails with OK      *)
(*   place    the raw record the classifier is applied to (None: no record) *)
(*   built    what each application of mapPlaceToBusiness to place gave     *)
(*   clock    the time new Date() reads                                     *)
(*   analysis the locals and position of the analyzeBusiness call           *)
(*   reduction the reduce of extractSocialProfiles: its list, the index of  *)
(*            the next url and the accumulator                              *)
(*   received the callback arguments each of two concurrent calls was given *)
(*   view     the state of the ResultsList component and its requests       *)
(***************************************************************************)
VARIABLES calls, pending, obs, place, built, clock, analysis, reduction,
          received, view

vars ==
    <<calls, pending, obs, place, built, clock, analysis, reduction,
      received, view>>

\* the variables of the classifier
classifierVars == <<place, built, clock, reduction>>

NoObs ==
    [ geocode |-> "", seenIds |-> {}, resultsSeen |-> 0, tierStatuses |-> {},
      fetched |-> <<>> ]

Init ==
    /\ calls = [c \in Calls |-> Idle]
    /\ pending = {}
    /\ obs = [c \in Calls |-> NoObs]
    /\ place = None
    /\ built = <<>>
    /\ clock = 0
    /\ analysis = IdleAnalysis
    /\ reduction = NoReduction
    /\ received = [c \in Calls |-> <<>>]
    /\ view = NoView

\* the requests a call issued during one step
NewRequests(c, old, new) ==
    { [call |-> c, request |-> new.issued[i]] :
        i \in (Len(old.issued) + 1)..Len(new.issued) }

\* Place ids are opaque to the code, which only compares them: the ids the
\* client has not seen before are named in order of first appearance.
RECURSIVE InOrderOfAppearance(_, _)
InOrderOfAppearance(ids, m) ==
    IF ids = <<>> THEN TRUE
    ELSE IF Head(ids) <= m THEN InOrderOfAppearance(Tail(ids), m)
    ELSE Head(ids) = m + 1 /\ InOrderOfAppearance(Tail(ids), m + 1)

\* a caller invokes searchBusinesses(params)
searchBusinesses(c) ==
    /\ calls[c].pc = "idle"
    /\ \E params \in SearchParameters :
         LET new == Invoke(params)
         IN  /\ calls' = [calls EXCEPT ![c] = new]
             /\ pending' = pending \cup NewRequests(c, calls[c], new)
    /\ UNCHANGED <<obs, classifierVars, analysis, received, view>>

\* the external service answers the geocode request
geocodeCallback(c) ==
    \E r \in pending, resp \in GeocodeResponses :
        /\ r.call = c
        /\ r.request.kind = "geocode"
        /\ LET new == OnGeocode(calls[c], resp)
           IN  /\ calls' = [calls EXCEPT ![c] = new]
               /\ pending' = (pending \ {r}) \cup NewRequests(c, calls[c], new)
        /\ obs' = [obs EXCEPT ![c].geocode = resp.status]
        /\ UNCHANGED <<classifierVars, analysis, received, view>>

\* the external service answers a nearbySearch request
nearbySearchCallback(c) ==
    \E r \in pending, resp \in NearbyResponses :
        /\ r.call = c
        /\ r.request.kind = "nearbySearch"
        /\ IsSome(resp.results) =>
               InOrderOfAppearance(Get(resp.results), Cardinality(obs[c].seenIds))
        /\ LET stubs == IF IsSome(resp.results)
                            THEN Some(Stubs(Get(resp.results), obs[c].seenIds))
                            ELSE None
               new == OnNearby(calls[c], [status |-> resp.status, results |-> stubs])
               delivered == IF resp.status = "OK" /\ IsSome(resp.results)
                                THEN Get(resp.results) ELSE <<>>
           IN  /\ calls' = [calls EXCEPT ![c] = new]
               /\ pending' = (pending \ {r}) \cup NewRequests(c, calls[c], new)
               /\ obs' = [obs EXCEPT
                            ![c].seenIds = @ \cup (Range(delivered) \ {0}),
                            ![c].resultsSeen = @ + Len(delivered),
                            ![c].tierStatuses =
                                IF resp.status = "OK" THEN @ ELSE @ \cup {resp.status}]
        /\ UNCHANGED <<classifierVars, analysis, received, view>>

\* the external service answers a getDetails request
getDetailsCallback(c) ==
    \E r \in pending :
        /\ r.call = c
        /\ r.request.kind = "getDetails"
        /\ \E resp \in DetailsResponses(r.request.arg) :
            /\ LET new == OnDetails(calls[c], resp)
               IN  /\ calls' = [calls EXCEPT ![c] = new]
                   /\ pending' = (pending \ {r}) \cup NewRequests(c, calls[c], new)
            /\ obs' = [obs EXCEPT
                         ![c].fetched = IF resp.status = "OK" /\ IsSome(resp.result)
                                            THEN Append(@, Get(resp.result)) ELSE @]
        /\ UNCHANGED <<classifierVars, analysis, received, view>>

Next ==
    \E c \in Calls :
        \/ searchBusinesses(c)
        \/ geocodeCallback(c)
        \/ nearbySearchCallback(c)
        \/ getDetailsCallback(c)

Spec == Init /\ [][Next]_vars

(***************************************************************************)
(* The search under fairness: one four-tier search whose tiers deliver at   *)
(* most FairTierLen results each, with every request answered.              *)
(***************************************************************************)
\* longest result list of one nearbySearch response under fairness
FairTierLen == 1

\* a radius with four tiers and the largest explicit limit
FairParameters == {Parameters(20000, Some(MaxLimit), None, NoFilter)}

\* a caller invokes searchBusinesses with one of FairParameters
fairSearchBusinesses(c) ==
    /\ searchBusinesses(c)
    /\ calls'[c].params \in FairParameters

\* the external service answers a nearbySearch request with a short list
fairNearbySearchCallback(c) ==
    /\ nearbySearchCallback(c)
    /\ obs'[c].resultsSeen <= obs[c].resultsSeen + FairTierLen

FairNext ==
    \E c \in Calls :
        \/ fairSearchBusinesses(c)
        \/ geocodeCallback(c)
        \/ fairNearbySearchCallback(c)
        \/ getDetailsCallback(c)

\* every external request issued is answered: the callback of an outstanding
\* request is eventually invoked
Answered ==
    \A c \in Calls :
        /\ WF_vars(geocodeCallback(c))
        /\ WF_vars(fairNearbySearchCallback(c))
        /\ WF_vars(getDetailsCallback(c))

FairSpec == Init /\ [][FairNext]_vars /\ Answered

(***************************************************************************)
(* Properties of searchBusinesses.                                          *)
(***************************************************************************)
Resolved(c) == calls[c].pc = "resolved"
Rejected(c) == calls[c].pc = "rejected"
Returned(c) == Get(calls[c].result)

\* the requests of one kind a call has issued, in order
IssuedOf(c, kind) == SelectSeq(calls[c].issued, LAMBDA q : q.kind = kind)

Distinct(s) == \A i, j \in 1..Len(s) : i /= j => s[i] /= s[j]

\* a delivered record on which mapPlaceToBusiness throws
SomeFetchedThrows(c) ==
    \E i \in 1..Len(obs[c].fetched) : mapPlaceToBusinessThrows(obs[c].fetched[i])

\* the classification of every record the service delivered, in order
Classified(c) ==
    [i \in 1..Len(obs[c].fetched) |->
        mapPlaceToBusiness(obs[c].fetched[i], calls[c].params.location)]

NotClosed(s) == SelectSeq(s, LAMBDA b : b.businessStatus /= "PERMANENTLY_CLOSED")

\* C1: a resolved call returns at most limit businesses, exactly the entries
\* skip+1 .. skip+limit of the filtered list that exist, and hasMore is true
\* iff the filtered list has more than skip + limit entries.
C1_Pagination ==
    \A c \in Calls : Resolved(c) =>
        LET f == calls[c].businesses
            lo == calls[c].skip
            hi == Min(Len(f), calls[c].skip + calls[c].limit)
            r == Returned(c)
        IN  /\ calls[c].skip >= 0 /\ calls[c].limit >= 0
            /\ Len(r.businesses) <= calls[c].limit
            /\ Len(r.businesses) = (IF hi > lo THEN hi - lo ELSE 0)
            /\ \A i \in 1..Len(r.businesses) : r.businesses[i] = f[lo + i]
            /\ r.hasMore <=> (Len(f) > calls[c].skip + calls[c].limit)

\* C1 witness: a page that starts after the first survivor and leaves more
C1_Witness ==
    \E c \in Calls :
        /\ Resolved(c)
        /\ IsSome(calls[c].params.skip)
        /\ Returned(c).hasMore
        /\ Len(Returned(c).businesses) = 1
        /\ Len(calls[c].businesses) = 3

\* C2: the unique places accumulated never outnumber the results the tiers
\* delivered, every place kept is the first stub delivered with its id (a
\* later stub never replaces or re-adds it), and no place id is detail-fetched
\* twice.
C2_Dedup ==
    \A c \in Calls :
        /\ Len(calls[c].allPlaces) <= obs[c].resultsSeen
        /\ \A i \in 1..Len(calls[c].allPlaces) :
              /\ calls[c].allPlaces[i].value.first
              /\ calls[c].allPlaces[i].value.place_id = calls[c].allPlaces[i].key
        /\ Distinct([i \in 1..Len(calls[c].allPlaces) |-> calls[c].allPlaces[i].key])
        /\ Distinct([i \in 1..Len(IssuedOf(c, "getDetails")) |->
                        IssuedOf(c, "getDetails")[i].arg])

\* C2 witness: two tiers delivered four results for two places, both fetched
C2_Witness ==
    \E c \in Calls :
        /\ Len(IssuedOf(c, "nearbySearch")) >= 2
        /\ obs[c].resultsSeen = 4
        /\ Cardinality(obs[c].seenIds) = 2
        /\ Len(IssuedOf(c, "getDetails")) = 2
        /\ Resolved(c)

\* C3: no two businesses of a returned result have the same id.
C3_UniqueIds ==
    \A c \in Calls : Resolved(c) =>
        Distinct([i \in 1..Len(Returned(c).businesses) |-> Returned(c).businesses[i].id])

\* C4: no returned business is PERMANENTLY_CLOSED, whatever the filters,
\* skip and limit.
C4_NoPermanentlyClosed ==
    \A c \in Calls : Resolved(c) =>
        \A i \in 1..Len(Returned(c).businesses) :
            Returned(c).businesses[i].businessStatus /= "PERMANENTLY_CLOSED"

\* C4 witness: a closed place of the requested website type was delivered
\* next to an open one, which is returned
C4_Witness ==
    \E c \in Calls :
        /\ Resolved(c)
        /\ calls[c].params.websiteType = "facebook"
        /\ \E i \in 1..Len(obs[c].fetched) :
              /\ obs[c].fetched[i].business_status = "PERMANENTLY_CLOSED"
              /\ determineWebsiteType(obs[c].fetched[i].website) = "facebook"
        /\ Returned(c).businesses /= <<>>

\* C5: totalCount is the number of unique place ids the tier searches
\* delivered, independent of filters, skip and failed detail fetches.
C5_TotalCount ==
    \A c \in Calls : Resolved(c) =>
        Returned(c).totalCount = Cardinality(obs[c].seenIds)

\* C5 witness: two places found, a filter and a skip given, a detail fetch
\* failed, nothing returned
C5_Witness ==
    \E c \in Calls :
        /\ Resolved(c)
        /\ Cardinality(obs[c].seenIds) = 2
        /\ calls[c].params.websiteType /= ""
        /\ IsSome(calls[c].params.skip)
        /\ Len(obs[c].fetched) = 1
        /\ Returned(c).businesses = <<>>

\* C6: with a websiteType filter every returned business has that type and
\* the exclusion list is ignored (every open business of that type survives);
\* without it, a non-empty exclusion list keeps every listed type out.
C6_WebsiteTypeFilter ==
    \A c \in Calls : Resolved(c) =>
        LET wt == calls[c].params.websiteType
            ex == calls[c].params.excludeWebsiteTypes
            r == Returned(c).businesses
        IN  /\ wt /= "" =>
                /\ \A i \in 1..Len(r) : r[i].websiteType = wt
                /\ calls[c].businesses =
                       SelectSeq(NotClosed(Classified(c)), LAMBDA b : b.websiteType = wt)
            /\ (wt = "" /\ IsSome(ex) /\ Get(ex) /= <<>>) =>
                \A i \in 1..Len(r) : r[i].websiteType \notin Range(Get(ex))

\* C6 witness: websiteType facebook together with an exclusion of facebook;
\* a facebook business is returned and a business with its own site is not
C6_Witness ==
    \E c \in Calls :
        /\ Resolved(c)
        /\ calls[c].params.websiteType = "facebook"
        /\ calls[c].params.excludeWebsiteTypes = Some(<<"facebook">>)
        /\ Returned(c).businesses /= <<>>
        /\ \E i \in 1..Len(obs[c].fetched) :
              determineWebsiteType(obs[c].fetched[i].website) = "legitimate"

\* C7: without a websiteType filter and without a (non-empty) exclusion list,
\* the filtered list is the classification of every delivered record that is
\* not PERMANENTLY_CLOSED, legitimate ones included.
C7_NoFilterPassesAll ==
    \A c \in Calls :
        ( /\ Resolved(c)
          /\ calls[c].params.websiteType = ""
          /\ \/ calls[c].params.excludeWebsiteTypes = None
             \/ Get(calls[c].params.excludeWebsiteTypes) = <<>> )
        => calls[c].businesses = NotClosed(Classified(c))

\* C7 witness: no filter, a legitimate and a closed business were delivered
C7_Witness ==
    \E c \in Calls :
        /\ Resolved(c)
        /\ calls[c].params.websiteType = ""
        /\ calls[c].params.excludeWebsiteTypes = None
        /\ \E i \in 1..Len(calls[c].businesses) :
              calls[c].businesses[i].websiteType = "legitimate"
        /\ Len(calls[c].businesses) < Len(obs[c].fetched)

\* C8: once the geocoder has reported a status other than OK the call is
\* rejected, and the geocode request is the only request it ever issued.
C8_GeocodeFailure ==
    \A c \in Calls : obs[c].geocode \notin {"", "OK"} =>
        /\ Rejected(c)
        /\ Len(calls[c].issued) = 1
        /\ calls[c].issued[1].kind = "geocode"
        /\ \A r \in pending : r.call /= c

\* C8 witness: the geocoder reported REQUEST_DENIED
C8_Witness ==
    \E c \in Calls :
        /\ obs[c].geocode = "REQUEST_DENIED"
        /\ Rejected(c)
        /\ calls[c].error = "Geocoding failed"

\* a call that has left the loop over searchRadii
PastTiers(c) ==
    \/ calls[c].pc \in {"getDetails", "resolved"}
    \/ Rejected(c) /\ IssuedOf(c, "nearbySearch") /= <<>>

\* C9: tiers that report ZERO_RESULTS or another non-OK status contribute no
\* places and never reject the call: the places kept are exactly those the
\* OK tiers delivered, the loop ends only after the last radius or at the
\* target, and a call that searched a tier is rejected only by a record that
\* cannot be classified.
C9_TierFailureNotFatal ==
    \A c \in Calls :
        /\ {calls[c].allPlaces[i].key : i \in 1..Len(calls[c].allPlaces)} = obs[c].seenIds
        /\ PastTiers(c) =>
              \/ Len(IssuedOf(c, "nearbySearch")) = Len(calls[c].searchRadii)
              \/ Len(calls[c].allPlaces) >= calls[c].targetResults
        /\ (Rejected(c) /\ IssuedOf(c, "nearbySearch") /= <<>>) => SomeFetchedThrows(c)

\* C9 witness: a tier reported ZERO_RESULTS, another OVER_QUERY_LIMIT, and
\* the call resolved with a business from a tier that reported OK
C9_Witness ==
    \E c \in Calls :
        /\ Resolved(c)
        /\ obs[c].tierStatuses = {"ZERO_RESULTS", "OVER_QUERY_LIMIT"}
        /\ obs[c].seenIds /= {}
        /\ Returned(c).businesses /= <<>>

\* C10: a failed detail fetch is skipped and never retried, and never rejects
\* the call; every record delivered is kept, classified and filtered.
C10_DetailFailureSkipped ==
    \A c \in Calls :
        /\ Distinct([i \in 1..Len(IssuedOf(c, "getDetails")) |->
                        IssuedOf(c, "getDetails")[i].arg])
        /\ calls[c].detailedPlaces = obs[c].fetched
        /\ (Rejected(c) /\ IssuedOf(c, "getDetails") /= <<>>) => SomeFetchedThrows(c)
        /\ (calls[c].pc \in {"resolved", "rejected"} /\ ~SomeFetchedThrows(c)
              /\ IssuedOf(c, "nearbySearch") /= <<>>) =>
              /\ Resolved(c)
              /\ calls[c].businesses =
                     SelectSeq(Classified(c), LAMBDA b : PassesFilter(calls[c].params, b))

\* C10 witness: of three detail fetches one failed, and a business of the
\* other two is returned
C10_Witness ==
    \E c \in Calls :
        /\ Resolved(c)
        /\ Len(IssuedOf(c, "getDetails")) = 3
        /\ Len(obs[c].fetched) = 2
        /\ Returned(c).businesses /= <<>>

(***************************************************************************)
(* The classifier on its own: mapPlaceToBusiness applied, up to MaxBuilt    *)
(* times, to one raw record drawn from RawPlaces.                           *)
(***************************************************************************)
\* applications of mapPlaceToBusiness to the record
MaxBuilt == 2
\* longest types list of a raw record
MaxTypes == 3

\* hosts that merely contain a listed domain: myfacebook.com, notyelp.com,
\* wix.com.joes.org
ContainingUrls ==
    { <<"https://", "my", "facebook.com">>,
      <<"https://", "not", "yelp.com", "/somebiz">>,
      <<"http://", "wix.com", ".joes.org">> }

\* values of place.website: absent, not an absolute URL, a listed domain
\* with and without subdomain and path, in upper case, a site of its own
Websites ==
    { <<>>, <<"joes-cafe.com">>, <<"https://", "/">>, <<"www.", "facebook.com">> }
    \cup { <<"https://", PLATFORM_DOMAINS[i]>> : i \in 1..Len(PLATFORM_DOMAINS) }
    \cup { <<"http://", "www.", PLATFORM_DOMAINS[i], "/somebiz">> :
             i \in 1..Len(PLATFORM_DOMAINS) }
    \cup { FacebookUrl, OwnSiteUrl,
           <<"https://", "WWW.", "FACEBOOK.COM", "/">>,
           <<"http://", "Yelp.com", "?q">>,
           <<"https://", "www.", "joes-cafe.com", "/">> }
    \cup ContainingUrls

\* tags of place.types: two specific categories and two generic ones
TypeTags == {"cafe", "bar", "establishment", "store"}
TypeLists == UNION {[1..n -> TypeTags] : n \in 0..MaxTypes}

\* the record the others vary: every field present
FullPlace == RawPlace(1, "OPERATIONAL", OwnSiteUrl, SomeLocation)

\* raw records: every website, every types list (and none), every subset of
\* the four required fields absent, every status, phone number and photos
RawPlaces ==
    { [FullPlace EXCEPT !.website = w] : w \in Websites }
    \cup { [FullPlace EXCEPT !.types = Some(t)] : t \in TypeLists }
    \cup { [FullPlace EXCEPT !.types = None] }
    \cup { [FullPlace EXCEPT !.place_id = i, !.name = n,
                             !.formatted_address = a, !.geometry = g,
                             !.website = w] :
             i \in {0, 1}, n \in {None, Some("Joe's")},
             a \in {None, Some("1 Main St")}, g \in {None, SomeLocation},
             w \in {<<>>, OwnSiteUrl} }
    \cup { [FullPlace EXCEPT !.business_status = b, !.formatted_phone_number = f,
                             !.photos = ph] :
             b \in {"", "OPERATIONAL", "CLOSED_TEMPORARILY"},
             f \in {None, Some("555-0100")},
             ph \in {None} \cup {Some(n) : n \in 0..(MinPhotos + 1)} }

\* values of the searchQuery argument
SearchQueries == {"", "Austin"}

\* what one application gives: the Business with its lastUpdated, or a throw
Outcome(rawPlace, searchQuery, now) ==
    IF mapPlaceToBusinessThrows(rawPlace)
        THEN [threw |-> TRUE, business |-> None, lastUpdated |-> None]
        ELSE [threw |-> FALSE,
              business |-> Some(mapPlaceToBusiness(rawPlace, searchQuery)),
              lastUpdated |-> Some(now)]

ClassifierInit ==
    /\ calls = [c \in Calls |-> Idle]
    /\ pending = {}
    /\ obs = [c \in Calls |-> NoObs]
    /\ place \in {Some(p) : p \in RawPlaces}
    /\ built = <<>>
    /\ clock = 0
    /\ analysis = IdleAnalysis
    /\ reduction = NoReduction
    /\ received = [c \in Calls |-> <<>>]
    /\ view = NoView

\* a caller applies mapPlaceToBusiness to the record; time may have passed
classify ==
    /\ Len(built) < MaxBuilt
    /\ \E searchQuery \in SearchQueries, now \in clock..(clock + 1) :
         /\ built' = Append(built, Outcome(Get(place), searchQuery, now))
         /\ clock' = now
    /\ UNCHANGED <<calls, pending, obs, place, analysis, reduction, received, view>>

ClassifierNext == classify

ClassifierSpec == ClassifierInit /\ [][ClassifierNext]_vars

(***************************************************************************)
(* Properties of the classifier.                                            *)
(***************************************************************************)
\* the Businesses built from the record so far
Built == {Get(built[i].business) : i \in {j \in 1..Len(built) : ~built[j].threw}}

\* labels that make a host a subdomain of the domain that follows them
SubdomainAtoms == {"www.", "m."}

\* the host of url is a domain of the list, or a subdomain of one
HostIn(url, list) ==
    LET host == hostname(url)
    IN  /\ host /= <<>>
        /\ host[Len(host)] \in Range(list)
        /\ \A i \in 1..(Len(host) - 1) : host[i] \in SubdomainAtoms

\* C11: determineWebsiteType gives facebook for a host of the Facebook set,
\* yelp for a host of the Yelp set, other for a host of the platform list in
\* neither set, legitimate for any other well-formed host, and none for an
\* absent or unparseable URL.
C11_WebsiteTypeByHost ==
    \A b \in Built :
        LET url == Get(place).website
        IN  b.websiteType =
                IF url = <<>> \/ ~URLParses(url) THEN "none"
                ELSE IF HostIn(url, FACEBOOK_DOMAINS) THEN "facebook"
                ELSE IF HostIn(url, YELP_DOMAINS) THEN "yelp"
                ELSE IF HostIn(url, PLATFORM_DOMAINS) THEN "other"
                ELSE "legitimate"

\* a record was classified at least once without a throw
WasBuilt == Built /= {}

\* C12: a Business has websiteType legitimate exactly when needsWebsite is
\* false; a record without website gives websiteType none and needsWebsite
\* true.
C12_NeedsWebsite ==
    \A b \in Built :
        /\ (b.websiteType = "legitimate") <=> (b.improvements.needsWebsite = FALSE)
        /\ Get(place).website = <<>> =>
               b.websiteType = "none" /\ b.improvements.needsWebsite = TRUE

\* a record without website has been classified
C12_Witness ==
    /\ WasBuilt
    /\ Get(place).website = <<>>

\* the indices of the tags of types outside the denylist
Surviving(types) == {i \in 1..Len(types) : types[i] \notin genericCategories}

\* C13: the category list holds no tag of the denylist and holds the tags of
\* types outside the denylist, each as often as types does and in the order
\* of types; without types it is empty.
C13_Categories ==
    \A b \in Built :
        LET types == Get(place).types
        IN  IF types = None THEN b.category = <<>>
            ELSE LET in == Get(types)
                     keep == Surviving(in)
                 IN  /\ \A k \in 1..Len(b.category) :
                            b.category[k] \notin genericCategories
                     /\ Len(b.category) = Cardinality(keep)
                     /\ \A i \in keep :
                            b.category[Cardinality({j \in keep : j <= i})] = in[i]

\* a list with a generic tag between two equal specific tags was filtered
C13_Witness ==
    /\ WasBuilt
    /\ Get(place).types = Some(<<"cafe", "store", "cafe">>)

\* the record lacks one of the fields a Business requires
LacksRequired(rawPlace) ==
    \/ rawPlace.place_id = 0
    \/ rawPlace.name = None
    \/ rawPlace.formatted_address = None
    \/ rawPlace.geometry = None

\* C14: mapPlaceToBusiness throws whenever the record lacks its place id,
\* name, formatted address or geometry location, and never returns a
\* Business whose id, name, address or location is absent.
C14_RequiredFields ==
    /\ \A i \in 1..Len(built) : LacksRequired(Get(place)) => built[i].threw
    /\ \A b \in Built : b.id /= 0 /\ b.name /= None /\ b.address /= None

\* C15: two classifications of the same record, whenever they are made and
\* whatever search query they are given, agree on websiteType, category and
\* improvements.
C15_SameClassification ==
    \A i, j \in 1..Len(built) :
        ~built[i].threw /\ ~built[j].threw =>
            LET b1 == Get(built[i].business)
                b2 == Get(built[j].business)
            IN  /\ b1.websiteType = b2.websiteType
                /\ b1.category = b2.category
                /\ b1.improvements = b2.improvements

\* the record was classified twice, at different times and with different
\* search queries
C15_Witness ==
    /\ Len(built) = 2
    /\ ~built[1].threw /\ ~built[2].threw
    /\ built[1].lastUpdated /= built[2].lastUpdated
    /\ Get(built[1].business).searchQuery /= Get(built[2].business).searchQuery

(***************************************************************************)
(* analyzeBusiness (the earlier revision of the service, which has its own  *)
(* mapPlaceToBusiness: categories unfiltered, no improvements).             *)
(***************************************************************************)
\* mapPlaceToBusiness of that revision; it throws as the later one does
mapPlaceToBusiness_part001(rawPlace, searchQuery) ==
    LET website == rawPlace.website
        websiteType == determineWebsiteType(website)
        businessStatus ==
            IF rawPlace.business_status /= "" THEN rawPlace.business_status
            ELSE "OPERATIONAL"
    IN  [ id |-> rawPlace.place_id,
          name |-> rawPlace.name,
          address |-> rawPlace.formatted_address,
          location |-> Get(rawPlace.geometry),
          category |-> IF IsSome(rawPlace.types) THEN Get(rawPlace.types) ELSE <<>>,
          websiteType |-> websiteType,
          websiteUrl |-> website,
          socialProfiles |->
              extractSocialProfiles(IF rawPlace.url /= <<>> THEN <<rawPlace.url>> ELSE <<>>),
          phoneNumber |-> rawPlace.formatted_phone_number,
          searchQuery |-> searchQuery,
          businessStatus |-> businessStatus ]

\* the object the callback resolves with: the nine fields requested, copied
placeDetails(result) == [result EXCEPT !.photos = None]

\* service.getDetails callback arguments: every raw record with OK, no
\* result with OK, and a failure with and without a result
AnalyzeResponses ==
    { [status |-> "OK", result |-> Some(r)] : r \in RawPlaces }
    \cup { [status |-> "OK", result |-> None],
           [status |-> "NOT_FOUND", result |-> None],
           [status |-> "OVER_QUERY_LIMIT", result |-> Some(FullPlace)] }

\* the call up to its await
InvokeAnalyze(placeId) ==
    Issue([IdleAnalysis EXCEPT !.placeId = placeId], "getDetails", placeId)

\* mutant of OnAnalyzeDetails: the status is not tested
OnAnalyzeDetailsAnyStatus(L, resp) ==
    LET after == [L EXCEPT !.response = Some(resp)]
    IN  IF IsSome(resp.result)
            THEN LET rawPlace == placeDetails(Get(resp.result))
                 IN  IF mapPlaceToBusinessThrows(rawPlace)
                         THEN Reject(after, "TypeError")
                         ELSE [after EXCEPT
                                 !.pc = "resolved",
                                 !.result = Some(mapPlaceToBusiness_part001(rawPlace, ""))]
            ELSE Reject(after, "Place details failed")

\* the getDetails callback and the rest of the function
OnAnalyzeDetails(L, resp) ==
    LET after == [L EXCEPT !.response = Some(resp)]
    IN  IF resp.status = "OK" /\ IsSome(resp.result)
            THEN LET rawPlace == placeDetails(Get(resp.result))
                 IN  IF mapPlaceToBusinessThrows(rawPlace)
                         THEN Reject(after, "TypeError")
                         ELSE [after EXCEPT
                                 !.pc = "resolved",
                                 !.result = Some(mapPlaceToBusiness_part001(rawPlace, ""))]
            ELSE Reject(after, "Place details failed")

\* the requests of the analyzeBusiness call belong to call "analyze"
AnalyzeRequests(old, new) == NewRequests("analyze", old, new)

\* a caller invokes analyzeBusiness(placeId)
analyzeBusiness ==
    /\ analysis.pc = "idle"
    /\ \E placeId \in 1..NumIds :
         LET new == InvokeAnalyze(placeId)
         IN  /\ analysis' = new
             /\ pending' = pending \cup AnalyzeRequests(analysis, new)
    /\ UNCHANGED <<calls, obs, classifierVars, received, view>>

\* the external service answers the getDetails request of analyzeBusiness
analyzeDetailsCallback ==
    \E r \in pending, resp \in AnalyzeResponses :
        /\ r.call = "analyze"
        /\ r.request.kind = "getDetails"
        /\ LET new == OnAnalyzeDetails(analysis, resp)
           IN  /\ analysis' = new
               /\ pending' = (pending \ {r}) \cup AnalyzeRequests(analysis, new)
        /\ UNCHANGED <<calls, obs, classifierVars, received, view>>

AnalyzeNext ==
    \/ analyzeBusiness
    \/ analyzeDetailsCallback

AnalyzeSpec == Init /\ [][AnalyzeNext]_vars

(***************************************************************************)
(* Properties of analyzeBusiness.                                           *)
(***************************************************************************)
\* the call has settled: its promise is resolved or rejected
AnalysisSettled == analysis.pc \in {"resolved", "rejected"}

\* the call made one getDetails request for its placeId and no other request
OneDetailFetch ==
    analysis.pc /= "idle" =>
        /\ Len(analysis.issued) = 1
        /\ analysis.issued[1].kind = "getDetails"
        /\ analysis.issued[1].arg = analysis.placeId
        /\ AnalysisSettled <=> pending = {}

\* the detail fetch failed: a status other than OK, or no result
DetailFetchFailed ==
    LET resp == Get(analysis.response)
    IN  resp.status /= "OK" \/ resp.result = None

\* the classification of the record the detail fetch delivered
AnalysisClassification ==
    mapPlaceToBusiness_part001(placeDetails(Get(Get(analysis.response).result)), "")

\* C16 as stated: analyzeBusiness issues exactly one detail fetch and no
\* geocode or nearby search; it rejects if the fetch reports a status other
\* than OK or no result, and otherwise resolves to the classification of the
\* fetched record.
C16_AnalyzeAsStated ==
    /\ OneDetailFetch
    /\ AnalysisSettled =>
           IF DetailFetchFailed THEN analysis.pc = "rejected"
           ELSE /\ analysis.pc = "resolved"
                /\ analysis.result = Some(AnalysisClassification)

\* the fetched record has no geometry: mapPlaceToBusiness throws on it
FetchedThrows ==
    mapPlaceToBusinessThrows(placeDetails(Get(Get(analysis.response).result)))

\* C16, amended: analyzeBusiness issues exactly one detail fetch and no
\* geocode or nearby search; it rejects if the fetch reports a status other
\* than OK or no result, and also if mapPlaceToBusiness throws on the fetched
\* record (no geometry); otherwise it resolves to the classification of the
\* fetched record.
C16_Analyze ==
    /\ OneDetailFetch
    /\ AnalysisSettled =>
           IF DetailFetchFailed \/ FetchedThrows THEN analysis.pc = "rejected"
           ELSE /\ analysis.pc = "resolved"
                /\ analysis.result = Some(AnalysisClassification)

\* the call rejected although the detail fetch delivered a record with OK
C16_Witness ==
    /\ analysis.pc = "rejected"
    /\ ~DetailFetchFailed
    /\ FetchedThrows

(***************************************************************************)
(* Properties of the external calls of searchBusinesses.                    *)
(***************************************************************************)
\* the requests of call c whose callback has not run
Outstanding(c) == {r \in pending : r.call = c}

\* C17: within one call at most one external request is outstanding, and it
\* is the one issued last; the geocode request is the first and only one of
\* its kind; the nearby searches are issued for the radii of the tier list,
\* one per tier and in its order; no nearby search follows a detail fetch.
C17_Sequential ==
    \A c \in Calls :
        LET issued == calls[c].issued
            nearby == IssuedOf(c, "nearbySearch")
        IN  /\ Cardinality(Outstanding(c)) <= 1
            /\ \A r \in Outstanding(c) : r.request = issued[Len(issued)]
            /\ \A i \in 1..Len(issued) : (issued[i].kind = "geocode") <=> (i = 1)
            /\ Len(nearby) <= Len(calls[c].searchRadii)
            /\ \A i \in 1..Len(nearby) : nearby[i].arg = calls[c].searchRadii[i]
            /\ \A i, j \in 1..Len(issued) :
                   (i < j /\ issued[i].kind = "getDetails") =>
                       issued[j].kind = "getDetails"

\* a detail fetch is outstanding after three nearby searches and another
\* detail fetch
C17_Witness ==
    \E c \in Calls :
        /\ Len(IssuedOf(c, "nearbySearch")) >= 3
        /\ Len(IssuedOf(c, "getDetails")) >= 2
        /\ Outstanding(c) /= {}

\* C18: the list of search radii is [radius] for radius <= 2000,
\* [min(2000, radius/2), radius] for 2000 < radius <= 10000, and
\* [2000, 5000, 10000, radius] for radius > 10000.
C18_SearchRadii ==
    \A c \in Calls :
        calls[c].pc \in {"nearbySearch", "getDetails", "resolved"} =>
            LET radius == calls[c].params.radius
                half == radius \div 2
            IN  calls[c].searchRadii =
                    CASE radius <= 2000 -> <<radius>>
                      [] radius > 2000 /\ radius <= 10000 ->
                             <<IF half < 2000 THEN half ELSE 2000, radius>>
                      [] radius > 10000 -> <<2000, 5000, 10000, radius>>

\* the list was derived for a radius at the border of two classes
C18_Witness ==
    \E c \in Calls :
        /\ calls[c].pc = "resolved"
        /\ calls[c].params.radius = 10000
        /\ calls[c].searchRadii = <<2000, 10000>>

\* a step of call c issues a nearby search
IssuesNearby(c) ==
    Len(IssuedOf(c, "nearbySearch")') > Len(IssuedOf(c, "nearbySearch"))

\* a step of call c ends the wait for the geocoder or for a tier with radii
\* still to search
TierDecision(c) ==
    /\ calls[c]' /= calls[c]
    /\ calls[c]'.pc /= "rejected"
    /\ \/ calls[c].pc = "geocode"
       \/ calls[c].pc = "nearbySearch" /\ calls[c].tier < Len(calls[c].searchRadii)

\* C19: no nearby search is issued once the number of unique places found is
\* at least limit * 3; while it is below and a radius is left, the next radius
\* is searched.
C19_EarlyStop ==
    [][\A c \in Calls :
          /\ IssuesNearby(c) =>
                 Len(calls[c]'.allPlaces) < calls[c]'.limit * Oversample
          /\ (TierDecision(c) /\
                  Len(calls[c]'.allPlaces) < calls[c]'.limit * Oversample) =>
                 IssuesNearby(c)]_vars

\* the search stopped before the last radius with limit * 3 places found
C19_Witness ==
    \E c \in Calls :
        /\ calls[c].pc \in {"getDetails", "resolved"}
        /\ calls[c].limit > 0
        /\ Len(calls[c].allPlaces) >= calls[c].limit * Oversample
        /\ Len(IssuedOf(c, "nearbySearch")) < Len(calls[c].searchRadii)
        /\ Len(IssuedOf(c, "nearbySearch")) >= 2

\* C20: at most one detail fetch is issued per unique place id, and never
\* more than limit * 3 detail fetches in all, whatever fetches fail.
C20_DetailFetchBudget ==
    \A c \in Calls :
        LET fetches == IssuedOf(c, "getDetails")
        IN  /\ Distinct([i \in 1..Len(fetches) |-> fetches[i].arg])
            /\ Len(fetches) <= calls[c].limit * Oversample

(***************************************************************************)
(* Properties of the improvement flags.                                     *)
(***************************************************************************)
\* C23: needsPhone is true exactly when the phone number is absent,
\* needsPhotos exactly when the photo list is absent or has fewer than 3
\* entries, and needsSocialMedia is false for every record.
C23_Improvements ==
    \A b \in Built :
        LET rawPlace == Get(place)
        IN  /\ b.improvements.needsPhone <=> rawPlace.formatted_phone_number = None
            /\ b.improvements.needsPhotos <=>
                   (rawPlace.photos = None \/ Get(rawPlace.photos) < 3)
            /\ b.improvements.needsSocialMedia = FALSE

\* a record with a phone number and exactly three photos was classified
C23_Witness ==
    /\ WasBuilt
    /\ Get(place).formatted_phone_number /= None
    /\ Get(place).photos = Some(3)

(***************************************************************************)
(* extractSocialProfiles on its own: the reduce over a list of urls, one    *)
(* invocation of its callback per step.                                     *)
(***************************************************************************)
\* longest list of urls
MaxUrls == 3

\* urls of the list: two Facebook pages, a Yelp page, an Instagram page, two
\* other sites, and a string that is no absolute URL
ProfileUrls ==
    { FacebookUrl, <<"https://", "fb.com", "/somebiz">>,
      <<"https://", "www.", "yelp.com", "/somebiz">>,
      <<"https://", "instagram.com", "/somebiz">>,
      OwnSiteUrl, <<"https://", "linkedin.com", "/somebiz">>,
      <<"joes-cafe.com">> }

UrlLists == UNION {[1..n -> ProfileUrls] : n \in 0..MaxUrls}

ProfilesInit ==
    /\ calls = [c \in Calls |-> Idle]
    /\ pending = {}
    /\ obs = [c \in Calls |-> NoObs]
    /\ place = None
    /\ built = <<>>
    /\ clock = 0
    /\ analysis = IdleAnalysis
    /\ reduction \in {[NoReduction EXCEPT !.urls = urls] : urls \in UrlLists}
    /\ received = [c \in Calls |-> <<>>]
    /\ view = NoView

\* reduce invokes its callback on the next url of the list
reduceCallback ==
    /\ reduction.next <= Len(reduction.urls)
    /\ reduction' =
           [reduction EXCEPT
              !.profiles = AddProfile(@, reduction.urls[reduction.next]),
              !.next = @ + 1]
    /\ UNCHANGED <<calls, pending, obs, place, built, clock, analysis, received, view>>

ProfilesNext == reduceCallback

ProfilesSpec == ProfilesInit /\ [][ProfilesNext]_vars

(***************************************************************************)
(* Properties of extractSocialProfiles.                                     *)
(***************************************************************************)
\* the urls the reduce has processed
Processed == SubSeq(reduction.urls, 1, reduction.next - 1)

\* the platform a parseable url is classified to
PlatformOf(url) ==
    LET domain == hostname(url)
    IN  IF someIncluded(FACEBOOK_DOMAINS, domain) THEN "facebook"
        ELSE IF someIncluded(YELP_DOMAINS, domain) THEN "yelp"
        ELSE IF includes(domain, "instagram.com") THEN "instagram"
        ELSE "other"

\* the processed urls classified to a platform, in input order
UrlsOf(platform) ==
    SelectSeq(Processed, LAMBDA url : URLParses(url) /\ PlatformOf(url) = platform)

\* the last url of a list, None for the empty list
LastOf(list) == IF list = <<>> THEN None ELSE Some(list[Len(list)])

\* what the profiles hold after the processed urls: facebook, yelp and
\* instagram the last url classified to that platform, other every other
\* parseable url in input order
ProfilesAsProcessed ==
    /\ reduction.profiles.facebook = LastOf(UrlsOf("facebook"))
    /\ reduction.profiles.yelp = LastOf(UrlsOf("yelp"))
    /\ reduction.profiles.instagram = LastOf(UrlsOf("instagram"))
    /\ reduction.profiles.other =
           (IF UrlsOf("other") = <<>> THEN None ELSE Some(UrlsOf("other")))

\* the step on an unparseable url leaves the profiles unchanged
SkipsUnparseable ==
    (reduction'.next = reduction.next + 1
       /\ ~URLParses(reduction.urls[reduction.next]))
    => reduction'.profiles = reduction.profiles

\* C24: the urls are processed in order; an unparseable url is skipped and
\* leaves the profiles unchanged; facebook, yelp and instagram hold the last
\* url of the list classified to that platform; every other parseable url is
\* appended to other in input order.
C24_Profiles == []ProfilesAsProcessed /\ [][SkipsUnparseable]_vars

\* two Facebook pages with an unparseable url between them have been
\* processed, and the second page is the one stored
C24_Witness ==
    /\ reduction.next > Len(reduction.urls)
    /\ reduction.urls = <<FacebookUrl, <<"joes-cafe.com">>,
                          <<"https://", "fb.com", "/somebiz">> >>
    /\ reduction.profiles.facebook = Some(<<"https://", "fb.com", "/somebiz">>)

(***************************************************************************)
(* Properties of the pages of searchBusinesses.                             *)
(***************************************************************************)
\* C25: the filtered list is built from at most limit * 3 detailed places, so
\* a resolved call has hasMore false whenever skip >= 2 * limit and returns
\* no business whenever skip >= 3 * limit.
C25_ThreePages ==
    \A c \in Calls :
        /\ Len(calls[c].detailedPlaces) <= calls[c].limit * 3
        /\ Resolved(c) =>
              /\ Len(calls[c].businesses) <= calls[c].limit * 3
              /\ calls[c].skip >= 2 * calls[c].limit => Returned(c).hasMore = FALSE
              /\ calls[c].skip >= 3 * calls[c].limit => Returned(c).businesses = <<>>

\* the filtered list has limit * 3 entries, more places were found, and the
\* fourth page is empty
C25_Witness ==
    \E c \in Calls :
        /\ Resolved(c)
        /\ calls[c].limit = 1
        /\ calls[c].skip = 3
        /\ Len(calls[c].businesses) = 3
        /\ Len(calls[c].allPlaces) = 4
        /\ Returned(c).businesses = <<>>

(***************************************************************************)
(* Termination of searchBusinesses.                                         *)
(***************************************************************************)
Settled(c) == Resolved(c) \/ Rejected(c)

\* a call that was made has issued one geocode request and at most four
\* nearby searches, and is settled only with no request outstanding
BoundedCalls ==
    \A c \in Calls :
        /\ calls[c].pc /= "idle" => Len(IssuedOf(c, "geocode")) = 1
        /\ Len(IssuedOf(c, "nearbySearch")) <= 4
        /\ Settled(c) => Outstanding(c) = {}
        /\ Resolved(c) => IsSome(calls[c].result)

\* C22: a call issues exactly one geocode request and at most four nearby
\* searches; if every request issued is answered, the call eventually
\* resolves or rejects, and it does so only after every request it issued
\* has been answered.
C22_Settles ==
    /\ []BoundedCalls
    /\ \A c \in Calls : (calls[c].pc /= "idle") ~> Settled(c)

\* a call has resolved after one geocode request, four nearby searches and
\* three detail fetches
C22_Witness ==
    \E c \in Calls :
        /\ Resolved(c)
        /\ Len(IssuedOf(c, "geocode")) = 1
        /\ Len(IssuedOf(c, "nearbySearch")) = 4
        /\ Len(IssuedOf(c, "getDetails")) >= 3

(***************************************************************************)
(* Two concurrent calls of searchBusinesses: their steps interleave in any  *)
(* order, and received records the arguments of every callback of a call.   *)
(***************************************************************************)
BothCalls == {"A", "B"}

\* place ids the external service hands out to the concurrent calls
ConcurrentIds == 2
\* longest result list of one nearbySearch response to a concurrent call
ConcurrentTierLen == 2

\* the searches the two calls choose from: one without filter, one for the
\* second page of the places with a site of their own
ConcurrentParameters ==
    { Parameters(2000, Some(1), None, NoFilter),
      Parameters(2000, None, Some(1),
                 [websiteType |-> "legitimate", excludeWebsiteTypes |-> None]) }

\* callback arguments of the request of a concurrent call
CallbackArguments(request) ==
    CASE request.kind = "geocode" ->
             { [status |-> "OK", results |-> Some(<<"30.27,-97.74">>)],
               [status |-> "REQUEST_DENIED", results |-> None] }
      [] request.kind = "nearbySearch" ->
             { [status |-> "OK", results |-> Some(Stubs(ids, {}))] :
                 ids \in UNION {[1..n -> 1..ConcurrentIds] :
                                  n \in 1..ConcurrentTierLen} }
             \cup { [status |-> "ZERO_RESULTS", results |-> None],
                    [status |-> "OVER_QUERY_LIMIT", results |-> None] }
      [] request.kind = "getDetails" ->
             { [status |-> "OK", result |->
                  Some(RawPlace(request.arg, "OPERATIONAL", FacebookUrl, SomeLocation))],
               [status |-> "OK", result |->
                  Some(RawPlace(0, "", OwnSiteUrl, SomeLocation))],
               [status |-> "NOT_FOUND", result |-> None] }

\* the callback a call awaits, and the code up to its next await
Step(L, resp) ==
    CASE L.pc = "geocode" -> OnGeocode(L, resp)
      [] L.pc = "nearbySearch" -> OnNearby(L, resp)
      [] L.pc = "getDetails" -> OnDetails(L, resp)
      [] OTHER -> L

\* mutant of LocalsAfter: the dedupe map is one map for all calls
LocalsAfterSharedMap(c, new) ==
    [d \in DOMAIN calls |->
        IF d = c THEN new ELSE [calls[d] EXCEPT !.allPlaces = new.allPlaces]]

\* the locals of all calls after a step of call c: the locals are declared in
\* the body of searchBusinesses, so only those of c change
LocalsAfter(c, new) == [calls EXCEPT ![c] = new]

ConcurrentInit ==
    /\ calls = [c \in BothCalls |-> Idle]
    /\ pending = {}
    /\ obs = [c \in BothCalls |-> NoObs]
    /\ place = None
    /\ built = <<>>
    /\ clock = 0
    /\ analysis = IdleAnalysis
    /\ reduction = NoReduction
    /\ received = [c \in BothCalls |-> <<>>]
    /\ view = NoView

\* a caller invokes searchBusinesses while another call may be under way
concurrentSearchBusinesses(c) ==
    /\ calls[c].pc = "idle"
    /\ \E params \in ConcurrentParameters :
         LET new == Invoke(params)
         IN  /\ calls' = LocalsAfter(c, new)
             /\ pending' = pending \cup NewRequests(c, calls[c], new)
    /\ UNCHANGED <<obs, classifierVars, analysis, received, view>>

\* the external service answers a request of call c
concurrentCallback(c) ==
    \E r \in pending :
        /\ r.call = c
        /\ \E resp \in CallbackArguments(r.request) :
             LET new == Step(calls[c], resp)
             IN  /\ calls' = LocalsAfter(c, new)
                 /\ pending' = (pending \ {r}) \cup NewRequests(c, calls[c], new)
                 /\ received' = [received EXCEPT ![c] = Append(@, resp)]
        /\ UNCHANGED <<obs, classifierVars, analysis, view>>

ConcurrentNext ==
    \E c \in BothCalls :
        \/ concurrentSearchBusinesses(c)
        \/ concurrentCallback(c)

ConcurrentSpec == ConcurrentInit /\ [][ConcurrentNext]_vars

(***************************************************************************)
(* Properties of concurrent calls.                                          *)
(***************************************************************************)
\* the locals of a call that runs alone and is given the callback arguments
\* of the list one after the other
RECURSIVE Replay(_, _)
Replay(L, responses) ==
    IF responses = <<>> THEN L
    ELSE Replay(Step(L, Head(responses)), Tail(responses))

RunsAlone(params, responses) == Replay(Invoke(params), responses)

\* C21: whatever the interleaving of two concurrent calls, each call is where
\* it would be had it run alone and received the same callback arguments: it
\* is settled exactly when the lone call is, and with the same SearchResult
\* or the same error.
C21_NoInterference ==
    \A c \in BothCalls :
        calls[c].pc /= "idle" =>
            LET alone == RunsAlone(calls[c].params, received[c])
            IN  /\ calls[c].pc = alone.pc
                /\ calls[c].result = alone.result
                /\ calls[c].error = alone.error
                /\ calls[c].issued = alone.issued

\* both calls have resolved, each after a nearby search and detail fetches,
\* with the same place in their maps and different pages returned
C21_Witness ==
    /\ calls["A"].pc = "resolved" /\ calls["B"].pc = "resolved"
    /\ Len(received["A"]) >= 3 /\ Len(received["B"]) >= 3
    /\ MapHas(calls["A"].allPlaces, 1) /\ MapHas(calls["B"].allPlaces, 1)
    /\ calls["A"].params /= calls["B"].params
    /\ Get(calls["A"].result).businesses /= <<>>
    /\ Get(calls["B"].result).businesses /= <<>>
    /\ Get(calls["A"].result) /= Get(calls["B"].result)

(***************************************************************************)
(* The ResultsList component.  searchBusinesses is the promise the          *)
(* component awaits: it resolves with a SearchResult or rejects.  A         *)
(* business is the tag of the page it belongs to, and a SearchResult        *)
(* carries the search parameters it was computed for (of).                  *)
(***************************************************************************)
\* changes of the search parameters of the page
MaxSearches == 2
\* searchBusinesses calls the component makes
MaxRequests == 4

ITEMS_PER_PAGE == 20

\* what the promise of a request settles to: a SearchResult with one business
\* or none, or None for a rejection
Settlements(request) ==
    { Some([ of |-> request.params,
             businesses |-> b,
             hasMore |-> h ]) :
        b \in {<<>>, <<[params |-> request.params, skip |-> request.skip]>>},
        h \in BOOLEAN }
    \cup {None}

\* the search parameters change to ones with a location: the effect resets
\* the pagination and calls fetchResults, which runs up to its await
navigate ==
    /\ view.searchParams < MaxSearches
    /\ view.started < MaxRequests
    /\ view' =
         [view EXCEPT
            !.searchParams = @ + 1,
            !.page = 1,
            !.allBusinesses = <<>>,
            !.isLoading = TRUE,
            !.error = None,
            !.started = @ + 1,
            !.inFlight = @ \cup {[ id |-> view.started + 1, kind |-> "fetch",
                                   params |-> view.searchParams + 1, skip |-> 0,
                                   page |-> 1, allBusinesses |-> <<>> ]}]
    /\ UNCHANGED <<calls, pending, obs, classifierVars, analysis, received>>

\* the promise fetchResults awaits settles: the rest of fetchResults
fetchResultsSettles ==
    \E request \in view.inFlight :
        /\ request.kind = "fetch"
        /\ \E settled \in Settlements(request) :
             view' =
                 IF IsSome(settled)
                     THEN [view EXCEPT
                             !.results = settled,
                             !.allBusinesses = Get(settled).businesses,
                             !.isLoading = FALSE,
                             !.inFlight = @ \ {request}]
                     ELSE [view EXCEPT
                             !.error = Some("An error occurred"),
                             !.isLoading = FALSE,
                             !.inFlight = @ \ {request}]
        /\ UNCHANGED <<calls, pending, obs, classifierVars, analysis, received>>

\* the Load More button is rendered and enabled
LoadMoreEnabled ==
    /\ view.error = None
    /\ IsSome(view.results)
    /\ Get(view.results).hasMore
    /\ ~view.isLoading

\* the user clicks Load More: handleLoadMore of the current render runs up to
\* its await, with the page and allBusinesses of that render
handleLoadMore ==
    /\ LoadMoreEnabled
    /\ view.searchParams > 0
    /\ view.started < MaxRequests
    /\ view' =
         [view EXCEPT
            !.isLoading = TRUE,
            !.started = @ + 1,
            !.inFlight = @ \cup {[ id |-> view.started + 1, kind |-> "more",
                                   params |-> view.searchParams,
                                   skip |-> view.page * ITEMS_PER_PAGE,
                                   page |-> view.page,
                                   allBusinesses |-> view.allBusinesses ]}]
    /\ UNCHANGED <<calls, pending, obs, classifierVars, analysis, received>>

\* the promise handleLoadMore awaits settles: the rest of handleLoadMore
handleLoadMoreSettles ==
    \E request \in view.inFlight :
        /\ request.kind = "more"
        /\ \E settled \in Settlements(request) :
             view' =
                 IF IsSome(settled)
                     THEN LET searchResult == Get(settled)
                              updatedBusinesses ==
                                  request.allBusinesses \o searchResult.businesses
                          IN  [view EXCEPT
                                 !.allBusinesses = updatedBusinesses,
                                 !.results =
                                     Some([searchResult EXCEPT
                                             !.businesses = updatedBusinesses,
                                             !.hasMore = searchResult.hasMore
                                                 /\ searchResult.businesses /= <<>>]),
                                 !.page = request.page + 1,
                                 !.isLoading = FALSE,
                                 !.inFlight = @ \ {request}]
                     ELSE [view EXCEPT
                             !.error = Some("An error occurred loading more results"),
                             !.isLoading = FALSE,
                             !.inFlight = @ \ {request}]
        /\ UNCHANGED <<calls, pending, obs, classifierVars, analysis, received>>

ViewNext ==
    \/ navigate
    \/ fetchResultsSettles
    \/ handleLoadMore
    \/ handleLoadMoreSettles

ViewSpec == Init /\ [][ViewNext]_vars

(***************************************************************************)
(* Properties of the ResultsList component.                                 *)
(***************************************************************************)
\* C26: once every request in flight has completed, the results and the
\* business list are those of the current search parameters: no response of
\* a request made for earlier parameters has overwritten them or been
\* appended to them.
C26_LatestResults ==
    view.inFlight = {} =>
        /\ IsSome(view.results) => Get(view.results).of = view.searchParams
        /\ \A i \in 1..Len(view.allBusinesses) :
               view.allBusinesses[i].params = view.searchParams

=============================================================================
